---- MODULE Spec2Model ----
(***************************************************************************)
(* A model of OptionsBacktestFramework (src/backtest_framework.py): the    *)
(* intraday walk of backtest_strategy over the market data table, its      *)
(* lookup helpers, and the ledger it builds; calculate_performance_metrics *)
(* and combine_portfolio (src/run_backtest.py) on the ledgers of the       *)
(* strategies that main runs.                                              *)
(*                                                                         *)
(* Representation.  A value that may be absent (Python None, pandas NaN)   *)
(* is a sequence: <<>> when absent, <<v>> when present.  A Time string     *)
(* "HH:MM:SS" is the tuple <<HH, MM, SS>> of its ':'-separated fields.     *)
(* Money is an integer; the price sets are chosen so that every division   *)
(* the run performs is exact (ArithmeticExact checks it).  A real-valued   *)
(* metric is a fraction <<numerator, denominator>> in lowest terms.        *)
(***************************************************************************)
EXTENDS Integers, Sequences, FiniteSets, TLC

VARIABLES
    nifty_data,         \* self.nifty_data: the market data table (a sequence of rows)
    capital,            \* backtest_strategy: capital
    trades,             \* backtest_strategy: trades (the ledger)
    trades_today,       \* backtest_strategy: trades_today (dict date -> count)
    live_positions,     \* backtest_strategy: live_positions
    positions_to_close, \* backtest_strategy: positions_to_close (indices, 1-based here)
    unique_dates,       \* backtest_strategy: unique_dates
    date_filtered,      \* backtest_strategy: date_filtered
    di,                 \* position of the `for date in unique_dates` loop (1-based)
    i,                  \* position of the `for i, pos in enumerate(live_positions)` loop
    idx,                \* position of the `for idx in range(0, len(date_filtered), 5)` loop
    current_data,       \* the window last passed to entry_logic
    signal,             \* (option_type, should_entry) last returned by entry_logic
    pc,                 \* where backtest_strategy is
    ledgers,            \* main: the trades_df each strategy's run returned
    si,                 \* main: position of the `for strategy_name, ...` loop (1-based)
    all_trades,         \* main: all_trades
    trades_df,          \* the ledger last passed to calculate_performance_metrics,
                        \* as its caller holds it after the call
    metrics,            \* the report of the last call of calculate_performance_metrics
    combined_trades,    \* main: combined_trades
    equity_df,          \* main: equity_df (the curve combine_portfolio returned)
    sort_kind,          \* how this build's quicksort orders rows of equal key
    mpc                 \* where main is

(* the state of backtest_strategy *)
evars == <<nifty_data, capital, trades, trades_today, live_positions,
           positions_to_close, unique_dates, date_filtered, di, i, idx,
           current_data, signal, pc>>

(* the state of main after the runs of the strategies *)
mvars == <<ledgers, si, all_trades, trades_df, metrics, combined_trades,
           equity_df, sort_kind, mpc>>

vars == <<evars, mvars>>

----------------------------------------------------------------------------
(* Bounds of the model *)

NumDates == 2
RowsPerDay == 6
MaxUnderlying == 230

(* Program constants *)

initial_capital == 1000000
Stride == 5
MaxTradesToday == 3
StrikeStep == 50
InvestDivisor == 10
WarmupHour == 9
WarmupMinute == 30
CloseHour == 15

----------------------------------------------------------------------------
(* Absent values and small helpers *)

None == <<>>
Some(v) == <<v>>
NoType == "None"

Rows(s) == {s[k] : k \in 1..Len(s)}

RECURSIVE SortedSeq(_)
(* sorted(set): ascending *)
SortedSeq(S) ==
    IF S = {} THEN <<>>
    ELSE LET m == CHOOSE x \in S : \A y \in S : x <= y
         IN <<m>> \o SortedSeq(S \ {m})

----------------------------------------------------------------------------
(* The market data table *)

(* pd.to_datetime(f"{Date} {Time}"): seconds on one axis *)
ToDateTime(d, t) == d * 86400 + t[1] * 3600 + t[2] * 60 + t[3]

MkRow(d, t, u, e, k, ty, c) ==
    [Date |-> d, Time |-> t, DateTime |-> ToDateTime(d, t), UNDERLYING |-> u,
     Expiry |-> e, DTE |-> e - d, Strike |-> k, OptionType |-> ty, Close |-> c]

T0845 == <<8, 45, 0>>
T0915 == <<9, 15, 0>>
T0930 == <<9, 30, 0>>
T1500 == <<15, 0, 0>>
T1510 == <<15, 10, 0>>

(* expiry dates, on the axis of the trading dates 1..NumDates *)
FarExpiry == NumDates + 5
NearExpiry == NumDates + 1

(* A day of RowsPerDay rows: rows 0..2 are stamped tA, the later ones tB;
   rows 0..2 close at cA, the later ones at cB; u0 is the underlying of row 0,
   u5 that of every later row; lay lays the contracts over the rows. *)
DayParam(tA, tB, cA, cB, lay, u0, u5) ==
    [tA |-> tA, tB |-> tB, cA |-> cA, cB |-> cB, lay |-> lay, u0 |-> u0, u5 |-> u5]

Schedules ==
    { <<T0845, T0915>>, <<T0915, T0930>>, <<T0930, T1500>>,
      <<T0930, T1510>>, <<T1510, T1510>>, <<T0915, T1510>> }

ClosePairs == { <<100, 110>>, <<200, 100>>, <<100, 100>>, <<0, 100>>, <<100, 0>> }

Layouts == { "alt_types", "two_expiries", "puts_only" }

UnderlyingPairs ==
    { <<Some(110), Some(110)>>, <<None, Some(110)>>, <<Some(0), Some(110)>>,
      <<Some(160), Some(110)>>, <<Some(125), Some(90)>> }

PlainDay == DayParam(T0930, T1500, 100, 110, "alt_types", Some(110), Some(110))

(* the days of the tables: every schedule, every pair of closes, every layout
   and every pair of underlying prices, each with the other three at their
   plain value *)
DayParams ==
    { [PlainDay EXCEPT !.tA = s[1], !.tB = s[2]] : s \in Schedules }
    \cup { [PlainDay EXCEPT !.cA = c[1], !.cB = c[2]] : c \in ClosePairs }
    \cup { [PlainDay EXCEPT !.lay = l] : l \in Layouts }
    \cup { [PlainDay EXCEPT !.u0 = u[1], !.u5 = u[2]] : u \in UnderlyingPairs }

DayRow(d, p, n) ==
    MkRow(d,
          IF n <= 2 THEN p.tA ELSE p.tB,
          IF n = 0 THEN p.u0 ELSE p.u5,
          IF p.lay = "two_expiries" /\ n % 2 = 1 THEN NearExpiry ELSE FarExpiry,
          100,
          IF p.lay = "puts_only" THEN "PE"
          ELSE IF p.lay = "two_expiries" THEN "CE"
          ELSE IF n % 2 = 0 THEN "CE" ELSE "PE",
          IF n <= 2 THEN p.cA ELSE p.cB)

Day(d, p) == [n \in 1..RowsPerDay |-> DayRow(d, p, n - 1)]

RECURSIVE Table(_, _)
(* the days of dates d..NumDates, in DateTime order *)
Table(d, choice) ==
    IF d > NumDates THEN <<>> ELSE Day(d, choice[d]) \o Table(d + 1, choice)

(* a table of every choice of days, and the table without rows *)
Tables == { Table(1, choice) : choice \in [1..NumDates -> DayParams] } \cup { <<>> }

(* the tables with at most one day that is not the plain one *)
SparseTables ==
    { Table(1, [d \in 1..NumDates |-> IF d = odd THEN p ELSE PlainDay]) :
        odd \in 1..NumDates, p \in DayParams }

(* the underlying prices of the strike tables: absent, zero, negative, and
   every price of 1..MaxUnderlying *)
StrikeUnderlyings ==
    {None, Some(0), Some(-50)} \cup {Some(u) : u \in 1..MaxUnderlying}

(* row n of a date of a strike table: the underlying is u in every row, the
   rows quote the calls of the strikes 50, 100, 150, 200 in turn *)
StrikeRow(d, u, n) ==
    MkRow(d,
          IF n <= 2 THEN T0930 ELSE T1500,
          u,
          FarExpiry,
          50 * ((n % 4) + 1),
          "CE",
          IF n <= 2 THEN 100 ELSE 110)

(* the tables whose rows all carry one underlying price *)
StrikeTables ==
    { [k \in 1..(NumDates * RowsPerDay) |->
          StrikeRow(((k - 1) \div RowsPerDay) + 1, u, (k - 1) % RowsPerDay)] :
        u \in StrikeUnderlyings }

----------------------------------------------------------------------------
(* The helpers of the framework *)

(* self.nifty_data[self.nifty_data['Date'] == date] *)
DateRows(current_date) == SelectSeq(nifty_data, LAMBDA r : r.Date = current_date)

RECURSIVE ReverseSeq(_)
ReverseSeq(s) == IF s = <<>> THEN <<>> ELSE ReverseSeq(Tail(s)) \o <<Head(s)>>

(* the dates, latest first *)
UniqueDates_Descending == ReverseSeq(SortedSeq({r.Date : r \in Rows(nifty_data)}))

(* sorted(self.nifty_data['Date'].unique()) *)
UniqueDates == SortedSeq({r.Date : r \in Rows(nifty_data)})

RECURSIVE FirstDTE(_, _)
(* groupby('Expiry')['DTE'].first(): the DTE of the first row of the expiry *)
FirstDTE(s, e) == IF Head(s).Expiry = e THEN Head(s).DTE ELSE FirstDTE(Tail(s), e)

(* the expiry of the first row of the date *)
get_nearest_expiry_FirstRow(current_date) ==
    LET date_data == DateRows(current_date)
    IN  IF Len(date_data) = 0 THEN None ELSE Some(date_data[1].Expiry)

get_nearest_expiry(current_date) ==
    LET date_data == DateRows(current_date)
        expiries == {r.Expiry : r \in Rows(date_data)}
        dte(e) == FirstDTE(date_data, e)
        least == {e \in expiries : \A f \in expiries : dte(e) <= dte(f)}
    IN  IF Len(date_data) = 0 THEN None
        ELSE IF expiries = {} THEN None
        ELSE Some(CHOOSE e \in least : \A f \in least : e <= f)

(* Python's round(): to the nearest integer, a tie to the even one *)
RoundHalfEven(num, den) ==
    LET q == num \div den
        r == num % den
    IN  IF 2 * r < den THEN q
        ELSE IF 2 * r > den THEN q + 1
        ELSE IF q % 2 = 0 THEN q ELSE q + 1

(* a strike rounded down instead of to the nearest *)
get_atm_strike_Floor(underlying_price) ==
    IF underlying_price = None THEN None
    ELSE IF underlying_price[1] <= 0 THEN None
    ELSE Some((underlying_price[1] \div StrikeStep) * StrikeStep)

get_atm_strike(underlying_price) ==
    IF underlying_price = None THEN None
    ELSE IF underlying_price[1] <= 0 THEN None
    ELSE Some(RoundHalfEven(underlying_price[1], StrikeStep) * StrikeStep)

ContractRows(on_date, expiry, strike, option_type) ==
    SelectSeq(nifty_data,
              LAMBDA r : /\ r.Date = on_date
                         /\ r.Expiry = expiry
                         /\ r.Strike = strike
                         /\ r.OptionType = option_type)

get_option_price(on_date, expiry, strike, option_type) ==
    LET date_data == ContractRows(on_date, expiry, strike, option_type)
    IN  IF Len(date_data) = 0 THEN None ELSE Some(date_data[1].Close)

(* a cut-off that leaves out the rows stamped 15:00:00 itself *)
get_exit_price_at_close_Before(on_date, expiry, strike, option_type) ==
    LET date_data == ContractRows(on_date, expiry, strike, option_type)
        close_time == ToDateTime(on_date, <<CloseHour, 0, 0>>)
        close_data == SelectSeq(date_data, LAMBDA r : r.DateTime < close_time)
    IN  IF Len(date_data) = 0 THEN None
        ELSE IF Len(close_data) > 0 THEN Some(close_data[Len(close_data)].Close)
        ELSE Some(date_data[Len(date_data)].Close)

get_exit_price_at_close(on_date, expiry, strike, option_type) ==
    LET date_data == ContractRows(on_date, expiry, strike, option_type)
        close_time == ToDateTime(on_date, <<CloseHour, 0, 0>>)
        close_data == SelectSeq(date_data, LAMBDA r : r.DateTime <= close_time)
    IN  IF Len(date_data) = 0 THEN None
        ELSE IF Len(close_data) > 0 THEN Some(close_data[Len(close_data)].Close)
        ELSE Some(date_data[Len(date_data)].Close)

----------------------------------------------------------------------------
(* backtest_strategy *)

strategy_name == "strategy"

(* what entry_logic may return: (option_type, should_entry).  (None, True)
   is left out: it prices no contract, so it acts as (None, False) does. *)
Signals == { <<NoType, FALSE>>, <<"CE", FALSE>>, <<"CE", TRUE>>, <<"PE", TRUE>> }

date == unique_dates[di]

(* date_filtered.iloc[idx] *)
intraday_row == date_filtered[idx + 1]

(* main has not yet received a ledger *)
MainNotStarted ==
    /\ ledgers = <<>>
    /\ si = 1
    /\ all_trades = <<>>
    /\ trades_df = <<>>
    /\ metrics = <<>>
    /\ combined_trades = <<>>
    /\ equity_df = <<>>
    /\ sort_kind = "stable"
    /\ mpc = "idle"

InitOn(tables) ==
    /\ nifty_data \in tables
    /\ capital = initial_capital
    /\ trades = <<>>
    /\ trades_today = <<>>
    /\ live_positions = <<>>
    /\ positions_to_close = <<>>
    /\ unique_dates = UniqueDates
    /\ date_filtered = <<>>
    /\ di = 1
    /\ i = 1
    /\ idx = 0
    /\ current_data = <<>>
    /\ signal = <<NoType, FALSE>>
    /\ pc = "for_date"
    /\ MainNotStarted

Init == InitOn(Tables)

(* `for date in unique_dates:` takes the next date and resets its counter *)
BeginDate ==
    /\ pc = "for_date"
    /\ di <= Len(unique_dates)
    /\ trades_today' = IF date \in DOMAIN trades_today THEN trades_today
                       ELSE trades_today @@ (date :> 0)
    /\ date_filtered' = DateRows(date)
    /\ positions_to_close' = <<>>
    /\ i' = 1
    /\ pc' = "close_horizon"
    /\ UNCHANGED <<nifty_data, capital, trades, live_positions, unique_dates, di,
                   idx, current_data, signal>>
    /\ UNCHANGED mvars

(* the loop over the dates is exhausted: return pd.DataFrame(trades) *)
Finish ==
    /\ pc = "for_date"
    /\ di > Len(unique_dates)
    /\ pc' = "done"
    /\ UNCHANGED <<nifty_data, capital, trades, trades_today, live_positions,
                   positions_to_close, unique_dates, date_filtered, di, i, idx,
                   current_data, signal>>
    /\ UNCHANGED mvars

(* a same-day pass that looks only at positions of earlier dates *)
ShouldEvaluate_EarlierOnly(pass, pos) ==
    IF pass = "close_horizon" THEN date >= pos.entry_date ELSE date > pos.entry_date

(* the condition under which a close pass looks at a position *)
ShouldEvaluate(pass, pos) ==
    IF pass = "close_horizon" THEN date >= pos.entry_date ELSE date = pos.entry_date

(* pnl = pos['investment'] * pnl_pct, pnl_pct = (exit - entry) / entry *)
Pnl(pos, exit_price) == (pos.investment * (exit_price - pos.entry_price)) \div pos.entry_price

(* pnl_pct * 100 *)
PnlPct100(pos, exit_price) == ((exit_price - pos.entry_price) * 100) \div pos.entry_price

(* capital -= pnl *)
NewCapital_Subtract(pos, exit_price) == capital - Pnl(pos, exit_price)

(* capital += pnl *)
NewCapital(pos, exit_price) == capital + Pnl(pos, exit_price)

(* a trade stamped with the capital from before `capital += pnl` *)
ClosedTrade_StaleCapital(pos, exit_price, capital_after) ==
    [strategy |-> strategy_name,
     entry_date |-> pos.entry_date,
     exit_date |-> date,
     entry_time |-> pos.entry_time,
     exit_time |-> <<CloseHour, 0, 0>>,
     option_type |-> pos.option_type,
     strike |-> pos.strike,
     expiry |-> pos.expiry,
     entry_price |-> pos.entry_price,
     exit_price |-> exit_price,
     profit |-> Pnl(pos, exit_price),
     profit_pct |-> PnlPct100(pos, exit_price),
     capital_after |-> capital,
     underlying_at_entry |-> pos.underlying_at_entry]

(* the dict appended to trades; capital_after is capital after `capital += pnl` *)
ClosedTrade(pos, exit_price, capital_after) ==
    [strategy |-> strategy_name,
     entry_date |-> pos.entry_date,
     exit_date |-> date,
     entry_time |-> pos.entry_time,
     exit_time |-> <<CloseHour, 0, 0>>,
     option_type |-> pos.option_type,
     strike |-> pos.strike,
     expiry |-> pos.expiry,
     entry_price |-> pos.entry_price,
     exit_price |-> exit_price,
     profit |-> Pnl(pos, exit_price),
     profit_pct |-> PnlPct100(pos, exit_price),
     capital_after |-> capital_after,
     underlying_at_entry |-> pos.underlying_at_entry]

(* one iteration of `for i, pos in enumerate(live_positions):` of either close pass *)
CloseIter ==
    /\ pc \in {"close_horizon", "close_sameday"}
    /\ i <= Len(live_positions)
    /\ LET pos == live_positions[i]
           exit_price == get_exit_price_at_close(date, pos.expiry, pos.strike,
                                                 pos.option_type)
           closes == ShouldEvaluate(pc, pos) /\ exit_price # None
       IN  IF closes
           THEN /\ capital' = NewCapital(pos, exit_price[1])
                /\ trades' = Append(trades, ClosedTrade(pos, exit_price[1], capital'))
                /\ positions_to_close' = Append(positions_to_close, i)
                /\ trades_today' = [trades_today EXCEPT ![date] = @ + 1]
           ELSE UNCHANGED <<capital, trades, positions_to_close, trades_today>>
    /\ i' = i + 1
    /\ UNCHANGED <<nifty_data, live_positions, unique_dates, date_filtered, di, idx,
                   current_data, signal, pc>>
    /\ UNCHANGED mvars

(* for i in sorted(positions_to_close, reverse=True): live_positions.pop(i) *)
RECURSIVE PopClosed(_, _)
PopClosed(positions, closed) ==
    IF closed = <<>> THEN positions
    ELSE LET k == closed[Len(closed)]
             rest == SubSeq(closed, 1, Len(closed) - 1)
         IN  IF k <= Len(positions)
             THEN PopClosed(SubSeq(positions, 1, k - 1)
                              \o SubSeq(positions, k + 1, Len(positions)), rest)
             ELSE PopClosed(positions, rest)

(* the end of a close pass: the closed positions leave the live set; the
   horizon pass hands over to the entry pass, the same-day pass to the next date *)
CloseEnd ==
    /\ pc \in {"close_horizon", "close_sameday"}
    /\ i > Len(live_positions)
    /\ live_positions' = PopClosed(live_positions, positions_to_close)
    /\ IF pc = "close_horizon"
       THEN /\ idx' = 0
            /\ pc' = "entry"
            /\ di' = di
       ELSE /\ idx' = idx
            /\ pc' = "for_date"
            /\ di' = di + 1
    /\ UNCHANGED <<nifty_data, capital, trades, trades_today, positions_to_close,
                   unique_dates, date_filtered, i, current_data, signal>>
    /\ UNCHANGED mvars

(* a break that forgets the live position *)
StopEntries_CounterOnly == trades_today[date] >= MaxTradesToday

(* if len(live_positions) > 0 or trades_today[date] >= 3: break *)
StopEntries ==
    IF Len(live_positions) > 0 THEN TRUE ELSE trades_today[date] >= MaxTradesToday

(* a warm-up test that looks at the hour alone *)
BeforeWarmup_HourOnly(current_time) == current_time[1] < WarmupHour

(* int(hour) < 9 or (int(hour) == 9 and int(minute) < 30), on the fields of
   current_time.split(':')[:2] *)
BeforeWarmup(current_time) ==
    LET hour == current_time[1]
        minute == current_time[2]
    IN  IF hour < WarmupHour THEN TRUE
        ELSE hour = WarmupHour /\ minute < WarmupMinute

(* the `continue`s of an entry iteration, and an unresolved expiry *)
SkipObservation(row) ==
    IF BeforeWarmup(row.Time) THEN TRUE
    ELSE IF row.UNDERLYING = None THEN TRUE
    ELSE IF row.UNDERLYING[1] <= 0 THEN TRUE
    ELSE IF get_nearest_expiry(date) = None THEN TRUE
    ELSE get_atm_strike(row.UNDERLYING) = None

(* a window of the whole date *)
Window_WholeDay(row) == date_filtered

(* date_filtered[date_filtered['DateTime'] <= intraday_row['DateTime']] *)
Window(row) == SelectSeq(date_filtered, LAMBDA r : r.DateTime <= row.DateTime)

(* the entry pass starts its same-day close pass *)
ToSameDay ==
    /\ positions_to_close' = <<>>
    /\ i' = 1
    /\ pc' = "close_sameday"

(* range(0, len(date_filtered), 5) is exhausted *)
EntryLoopEnd ==
    /\ pc = "entry"
    /\ idx >= Len(date_filtered)
    /\ ToSameDay
    /\ UNCHANGED <<nifty_data, capital, trades, trades_today, live_positions,
                   unique_dates, date_filtered, di, idx, current_data, signal>>
    /\ UNCHANGED mvars

(* the break of the entry loop *)
EntryBreak ==
    /\ pc = "entry"
    /\ idx < Len(date_filtered)
    /\ StopEntries
    /\ ToSameDay
    /\ UNCHANGED <<nifty_data, capital, trades, trades_today, live_positions,
                   unique_dates, date_filtered, di, idx, current_data, signal>>
    /\ UNCHANGED mvars

(* an iteration that ends before entry_logic is called *)
EntrySkip ==
    /\ pc = "entry"
    /\ idx < Len(date_filtered)
    /\ ~StopEntries
    /\ SkipObservation(intraday_row)
    /\ idx' = idx + Stride
    /\ UNCHANGED <<nifty_data, capital, trades, trades_today, live_positions,
                   positions_to_close, unique_dates, date_filtered, di, i,
                   current_data, signal, pc>>
    /\ UNCHANGED mvars

(* an entry that does not wait for should_entry *)
Opens_IgnoreShouldEntry(option_type, should_entry, entry_price) ==
    /\ option_type # NoType
    /\ entry_price # None
    /\ entry_price[1] > 0

(* whether the iteration opens a position on what entry_logic returned *)
Opens(option_type, should_entry, entry_price) ==
    /\ should_entry
    /\ option_type # NoType
    /\ entry_price # None
    /\ entry_price[1] > 0

(* a position sized on the initial capital instead of the running capital *)
OpenPosition_InitialCapital(row, expiry, strike, option_type, entry_price) ==
    [entry_date |-> date,
     entry_time |-> row.Time,
     expiry |-> expiry,
     strike |-> strike,
     option_type |-> option_type,
     entry_price |-> entry_price,
     investment |-> initial_capital \div InvestDivisor,
     underlying_at_entry |-> row.UNDERLYING[1]]

(* the dict appended to live_positions; investment = capital * 0.1 *)
OpenPosition(row, expiry, strike, option_type, entry_price) ==
    [entry_date |-> date,
     entry_time |-> row.Time,
     expiry |-> expiry,
     strike |-> strike,
     option_type |-> option_type,
     entry_price |-> entry_price,
     investment |-> capital \div InvestDivisor,
     underlying_at_entry |-> row.UNDERLYING[1]]

(* an iteration that calls entry_logic and opens a position on its word *)
EntryObserve ==
    /\ pc = "entry"
    /\ idx < Len(date_filtered)
    /\ ~StopEntries
    /\ ~SkipObservation(intraday_row)
    /\ \E sig \in Signals :
        LET expiry == get_nearest_expiry(date)[1]
            strike == get_atm_strike(intraday_row.UNDERLYING)[1]
            entry_price == get_option_price(date, expiry, strike, sig[1])
        IN  /\ signal' = sig
            /\ current_data' = Window(intraday_row)
            /\ IF Opens(sig[1], sig[2], entry_price)
               THEN /\ live_positions' =
                          Append(live_positions,
                                 OpenPosition(intraday_row, expiry, strike, sig[1],
                                              entry_price[1]))
                    /\ trades_today' = [trades_today EXCEPT ![date] = @ + 1]
               ELSE UNCHANGED <<live_positions, trades_today>>
    /\ idx' = idx + Stride
    /\ UNCHANGED <<nifty_data, capital, trades, positions_to_close, unique_dates,
                   date_filtered, di, i, pc>>
    /\ UNCHANGED mvars

Next ==
    \/ BeginDate
    \/ Finish
    \/ CloseIter
    \/ CloseEnd
    \/ EntryLoopEnd
    \/ EntryBreak
    \/ EntrySkip
    \/ EntryObserve

Spec == Init /\ [][Next]_vars

(* backtest_strategy runs from its first line to its return without being
   suspended (single-threaded, synchronous) *)
FairSpec == InitOn(SparseTables) /\ [][Next]_vars /\ WF_vars(Next)

(* backtest_strategy on the strike tables *)
StrikeSpec == InitOn(StrikeTables) /\ [][Next]_vars

----------------------------------------------------------------------------
(* Fractions: the real values of the metrics *)

Abs(x) == IF x < 0 THEN -x ELSE x

RECURSIVE GCD(_, _)
GCD(a, b) == IF b = 0 THEN a ELSE GCD(b, a % b)

(* n / d for d > 0, in lowest terms *)
Frac(n, d) == LET g == GCD(Abs(n), d) IN <<n \div g, d \div g>>

(* the number 0 of a real-valued metric *)
Zero == <<0, 1>>

FracLess(a, b) == a[1] * b[2] < b[1] * a[2]
FracSub(a, b) == Frac(a[1] * b[2] - b[1] * a[2], a[2] * b[2])
(* a / b for b > 0 *)
FracDiv(a, b) == Frac(a[1] * b[2], a[2] * b[1])
FracTimes(k, a) == Frac(k * a[1], a[2])

----------------------------------------------------------------------------
(* The ledgers main receives from the runs of its strategies *)

MetricDates == 2

(* run_backtest.main: strategies *)
Strategies == <<"Mean Reversion", "Directional", "Semi-Directional">>

(* what a run does on a date: no trade, or a trade entered at 100 that exits
   at 200, at 100 or at 0 *)
Outcomes == {"none", "win", "flat", "loss"}

(* the outcomes drawn for the s-th strategy *)
OutcomesOf(s) ==
    IF s = 1 THEN Outcomes
    ELSE IF s = 2 THEN {"none", "win", "loss"}
    ELSE {"none", "loss"}

ExitPriceOf(o) == IF o = "win" THEN 200 ELSE IF o = "flat" THEN 100 ELSE 0

(* the closed trade of date d that a run holding capital cap appends *)
LedgerRow(name, d, exit_price, cap) ==
    LET investment == cap \div InvestDivisor
        profit == (investment * (exit_price - 100)) \div 100
    IN  [strategy |-> name,
         entry_date |-> d,
         exit_date |-> d,
         entry_time |-> T0930,
         exit_time |-> <<CloseHour, 0, 0>>,
         option_type |-> "CE",
         strike |-> 100,
         expiry |-> MetricDates + 5,
         entry_price |-> 100,
         exit_price |-> exit_price,
         profit |-> profit,
         profit_pct |-> exit_price - 100,
         capital_after |-> cap + profit,
         underlying_at_entry |-> 110]

RECURSIVE RunLedger(_, _, _, _)
(* the ledger of one run from date d on: at most one trade per date, dates
   ascending, each trade sized on the capital its predecessors left *)
RunLedger(name, outcome, d, cap) ==
    IF d > MetricDates THEN <<>>
    ELSE IF outcome[d] = "none" THEN RunLedger(name, outcome, d + 1, cap)
    ELSE LET row == LedgerRow(name, d, ExitPriceOf(outcome[d]), cap)
         IN  <<row>> \o RunLedger(name, outcome, d + 1, row.capital_after)

(* the ledgers of the strategies, one choice of outcomes each *)
LedgerLists ==
    { [s \in 1..Len(Strategies) |-> RunLedger(Strategies[s], o[s], 1, initial_capital)] :
        o \in { f \in [1..Len(Strategies) -> [1..MetricDates -> Outcomes]] :
                   \A s \in 1..Len(Strategies), d \in 1..MetricDates :
                       f[s][d] \in OutcomesOf(s) } }

(* DataFrame.sort_values defaults to kind='quicksort', which is not stable:
   rows of equal key come out in an order that depends on the build and on
   the size of the frame.  Two such orders are modelled. *)
SortKinds == {"stable", "reversing"}

RECURSIVE ConcatByKey(_, _, _)
(* the rows of df of each key of keys in turn; the rows of one key in their
   order in df or, for a reversing sort, in the opposite order *)
ConcatByKey(df, keys, kind) ==
    IF keys = <<>> THEN <<>>
    ELSE LET same == SelectSeq(df, LAMBDA r : r.entry_date = Head(keys))
         IN  (IF kind = "stable" THEN same ELSE ReverseSeq(same))
             \o ConcatByKey(df, Tail(keys), kind)

(* df.sort_values('entry_date').reset_index(drop=True) *)
SortByEntryDate(df, kind) ==
    ConcatByKey(df, SortedSeq({r.entry_date : r \in Rows(df)}), kind)

----------------------------------------------------------------------------
(* calculate_performance_metrics *)

RECURSIVE SumProfit(_)
(* df['profit'].sum() *)
SumProfit(df) == IF df = <<>> THEN 0 ELSE Head(df).profit + SumProfit(Tail(df))

(* the greatest and the least of a non-empty set of fractions *)
FracMaxOf(S) == CHOOSE m \in S : \A x \in S : ~FracLess(m, x)
FracMinOf(S) == CHOOSE m \in S : \A x \in S : ~FracLess(x, m)

(* a zero-valued report whose Final_Capital is zero too *)
empty_metrics_ZeroCapital ==
    [CAGR |-> Zero, Maximum_Drawdown |-> Zero, Sharpe_Ratio |-> Zero,
     Win_Rate |-> Zero, Total_Trades |-> 0, Winning_Trades |-> 0,
     Losing_Trades |-> 0, Avg_Profit_Per_Trade |-> Zero,
     Avg_Loss_Per_Trade |-> Zero, Total_Return |-> Zero,
     Final_Capital |-> 0, Profit_Factor |-> Zero,
     Max_Consecutive_Wins |-> 0, Max_Consecutive_Losses |-> 0,
     Equity_Curve |-> <<>>]

(* _empty_metrics *)
empty_metrics ==
    [CAGR |-> Zero, Maximum_Drawdown |-> Zero, Sharpe_Ratio |-> Zero,
     Win_Rate |-> Zero, Total_Trades |-> 0, Winning_Trades |-> 0,
     Losing_Trades |-> 0, Avg_Profit_Per_Trade |-> Zero,
     Avg_Loss_Per_Trade |-> Zero, Total_Return |-> Zero,
     Final_Capital |-> initial_capital, Profit_Factor |-> Zero,
     Max_Consecutive_Wins |-> 0, Max_Consecutive_Losses |-> 0,
     Equity_Curve |-> <<>>]

(* the list equity_curve: one {'date', 'capital'} per row of the sorted ledger *)
EquityPoints(df) ==
    [k \in 1..Len(df) |-> [date |-> df[k].exit_date, capital |-> df[k].capital_after]]

(* equity_df['capital'] / equity_df['capital'].iloc[0] *)
Cumulative(curve, k) == Frac(curve[k].capital, curve[1].capital)

(* the maximum of the whole curve in the place of the running maximum *)
RunningMax_Overall(curve, k) == FracMaxOf({Cumulative(curve, j) : j \in 1..Len(curve)})

(* equity_df['cumulative'].expanding().max() *)
RunningMax(curve, k) == FracMaxOf({Cumulative(curve, j) : j \in 1..k})

(* (cumulative - running_max) / running_max *)
Drawdown(curve, k) ==
    FracDiv(FracSub(Cumulative(curve, k), RunningMax(curve, k)), RunningMax(curve, k))

(* equity_df['capital'].pct_change(): absent for the first point *)
Returns(curve, k) ==
    IF k = 1 THEN None
    ELSE Some(Frac(curve[k].capital - curve[k - 1].capital, curve[k - 1].capital))

(* equity_df with the columns the function adds to it *)
EquityFrame(curve) ==
    [k \in 1..Len(curve) |->
        [date |-> curve[k].date,
         capital |-> curve[k].capital,
         cumulative |-> Cumulative(curve, k),
         running_max |-> RunningMax(curve, k),
         drawdown |-> Drawdown(curve, k),
         returns |-> Returns(curve, k)]]

(* equity_df['drawdown'].min() * 100 *)
MaxDrawdown(curve) ==
    FracTimes(100, FracMinOf({Drawdown(curve, k) : k \in 1..Len(curve)}))

(* CAGR.  0 when total_days is 0; otherwise it stands for
   ((final_value / initial_capital) ** (365.25 / total_days) - 1) * 100,
   kept as its operands <<final_value, initial_capital, total_days>> *)
Cagr(df) ==
    LET last_exit == CHOOSE d \in {r.exit_date : r \in Rows(df)} :
                        \A r \in Rows(df) : r.exit_date <= d
        first_entry == CHOOSE d \in {r.entry_date : r \in Rows(df)} :
                          \A r \in Rows(df) : d <= r.entry_date
        total_days == last_exit - first_entry
    IN  IF total_days = 0 THEN Zero
        ELSE <<df[Len(df)].capital_after, initial_capital, total_days>>

(* Sharpe ratio.  0 unless there are returns of positive standard deviation,
   that is at least two returns that are not all equal; otherwise it stands
   for sqrt(252) * mean / std of the returns, kept as the capitals of the
   curve they are the changes of *)
Sharpe(curve) ==
    LET rets == {Returns(curve, k) : k \in 2..Len(curve)}
    IN  IF Len(curve) >= 3 /\ Cardinality(rets) > 1
        THEN [k \in 1..Len(curve) |-> curve[k].capital]
        ELSE Zero

(* a trade of zero profit counted with neither the wins nor the losses *)
IsLosing_Strict(trade) == trade.profit < 0

(* trades_df['profit'] <= 0 *)
IsLosing(trade) == trade.profit <= 0

(* trades_df['profit'] > 0 *)
IsWinning(trade) == trade.profit > 0

(* a classification that takes a zero profit for a win *)
ResultOf_ZeroWins(x) == IF x >= 0 THEN 1 ELSE -1

(* lambda x: 1 if x > 0 else -1 *)
ResultOf(x) == IF x > 0 THEN 1 ELSE -1

RECURSIVE Streaks(_, _, _, _, _)
(* the loop `for result in trades_df['result']`: <<max_consecutive_wins,
   max_consecutive_losses>> once the results are exhausted *)
Streaks(results, current_wins, current_losses, max_wins, max_losses) ==
    IF results = <<>> THEN <<max_wins, max_losses>>
    ELSE IF Head(results) = 1
         THEN Streaks(Tail(results), current_wins + 1, 0,
                      IF max_wins > current_wins + 1 THEN max_wins ELSE current_wins + 1,
                      max_losses)
         ELSE Streaks(Tail(results), 0, current_losses + 1, max_wins,
                      IF max_losses > current_losses + 1 THEN max_losses
                      ELSE current_losses + 1)

(* a profit factor of 0 when no trade is losing *)
ProfitFactor_ZeroWithoutLosses(df) ==
    LET winning_trades == SelectSeq(df, IsWinning)
        losing_trades == SelectSeq(df, IsLosing)
        total_profit == IF Len(winning_trades) > 0 THEN SumProfit(winning_trades) ELSE 0
        total_loss == IF Len(losing_trades) > 0 THEN Abs(SumProfit(losing_trades)) ELSE 0
    IN  IF total_loss > 0 THEN Frac(total_profit, total_loss) ELSE Zero

(* total_profit / total_loss if total_loss > 0 else 0, where total_loss is 1
   when no trade is losing *)
ProfitFactor(df) ==
    LET winning_trades == SelectSeq(df, IsWinning)
        losing_trades == SelectSeq(df, IsLosing)
        total_profit == IF Len(winning_trades) > 0 THEN SumProfit(winning_trades) ELSE 0
        total_loss == IF Len(losing_trades) > 0 THEN Abs(SumProfit(losing_trades)) ELSE 1
    IN  IF total_loss > 0 THEN Frac(total_profit, total_loss) ELSE Zero

(* the report of a ledger; the ledger is sorted into a frame of its own *)
calculate_performance_metrics(df) ==
    IF Len(df) = 0 THEN empty_metrics
    ELSE
    LET sorted == SortByEntryDate(df, sort_kind)
        curve == EquityPoints(sorted)
        winning_trades == SelectSeq(sorted, IsWinning)
        losing_trades == SelectSeq(sorted, IsLosing)
        final_value == sorted[Len(sorted)].capital_after
        streaks == Streaks([k \in 1..Len(sorted) |-> ResultOf(sorted[k].profit)],
                           0, 0, 0, 0)
    IN  [CAGR |-> Cagr(sorted),
         Maximum_Drawdown |-> MaxDrawdown(curve),
         Sharpe_Ratio |-> Sharpe(curve),
         Win_Rate |-> Frac(100 * Len(winning_trades), Len(sorted)),
         Total_Trades |-> Len(sorted),
         Winning_Trades |-> Len(winning_trades),
         Losing_Trades |-> Len(losing_trades),
         Avg_Profit_Per_Trade |->
             IF Len(winning_trades) > 0
             THEN Frac(SumProfit(winning_trades), Len(winning_trades)) ELSE Zero,
         Avg_Loss_Per_Trade |->
             IF Len(losing_trades) > 0
             THEN Frac(SumProfit(losing_trades), Len(losing_trades)) ELSE Zero,
         Total_Return |-> Frac(100 * (final_value - initial_capital), initial_capital),
         Final_Capital |-> final_value,
         Profit_Factor |-> ProfitFactor(sorted),
         Max_Consecutive_Wins |-> streaks[1],
         Max_Consecutive_Losses |-> streaks[2],
         Equity_Curve |-> EquityFrame(curve)]

(* a function that sorts the caller's frame in place and adds its 'result'
   column to it *)
CallerFrameAfter_InPlace(df) ==
    LET sorted == SortByEntryDate(df, "reversing")
    IN  [k \in 1..Len(sorted) |->
            sorted[k] @@ [result |-> ResultOf(sorted[k].profit)]]

(* the frame the caller passed, after the call: sort_values returns a new
   frame, which the local name trades_df is rebound to, and the 'result'
   column is added to that new frame *)
CallerFrameAfter(df) == df

----------------------------------------------------------------------------
(* combine_portfolio *)

RECURSIVE Concat(_)
(* pd.concat(all_trades, ignore_index=True) *)
Concat(frames) == IF frames = <<>> THEN <<>> ELSE Head(frames) \o Concat(Tail(frames))

(* groupby('date')['capital'].last(), for one date *)
GroupLast(points, on_date) ==
    LET same == SelectSeq(points, LAMBDA q : q.date = on_date)
    IN  same[Len(same)].capital

(* <<equity_df, combined_trades>> *)
combine_portfolio(frames) ==
    IF Len(frames) = 0 THEN << <<>>, <<>> >>
    ELSE
    LET combined == SortByEntryDate(Concat(frames), sort_kind)
        points == EquityPoints(combined)
        dates == SortedSeq({q.date : q \in Rows(points)})
    IN  << [k \in 1..Len(dates) |->
              [date |-> dates[k], capital |-> GroupLast(points, dates[k])]],
           combined >>

----------------------------------------------------------------------------
(* run_backtest.main, from the ledgers of the strategies on *)

(* backtest_strategy has returned: its locals are gone (they keep their
   initial values here) and the framework holds its table *)
EngineReturned ==
    /\ nifty_data = Table(1, [d \in 1..NumDates |-> PlainDay])
    /\ capital = initial_capital
    /\ trades = <<>>
    /\ trades_today = <<>>
    /\ live_positions = <<>>
    /\ positions_to_close = <<>>
    /\ unique_dates = <<>>
    /\ date_filtered = <<>>
    /\ di = 1
    /\ i = 1
    /\ idx = 0
    /\ current_data = <<>>
    /\ signal = <<NoType, FALSE>>
    /\ pc = "done"

MainInit ==
    /\ EngineReturned
    /\ ledgers \in LedgerLists
    /\ sort_kind \in SortKinds
    /\ si = 1
    /\ all_trades = <<>>
    /\ trades_df = <<>>
    /\ metrics = <<>>
    /\ combined_trades = <<>>
    /\ equity_df = <<>>
    /\ mpc = "strategies"

(* one turn of `for strategy_name, entry_function in strategies:` after the
   run of the strategy has returned its ledger *)
StrategyMetrics ==
    /\ mpc = "strategies"
    /\ si <= Len(ledgers)
    /\ IF Len(ledgers[si]) > 0
       THEN /\ metrics' = calculate_performance_metrics(ledgers[si])
            /\ trades_df' = CallerFrameAfter(ledgers[si])
            /\ all_trades' = Append(all_trades, trades_df')
       ELSE /\ metrics' = empty_metrics
            /\ trades_df' = ledgers[si]
            /\ all_trades' = all_trades
    /\ si' = si + 1
    /\ UNCHANGED <<ledgers, combined_trades, equity_df, sort_kind, mpc>>
    /\ UNCHANGED evars

(* if len(all_trades) > 0: equity_df, combined_trades = combine_portfolio(all_trades) *)
CombinePortfolio ==
    /\ mpc = "strategies"
    /\ si > Len(ledgers)
    /\ IF Len(all_trades) > 0
       THEN LET result == combine_portfolio(all_trades)
            IN  /\ equity_df' = result[1]
                /\ combined_trades' = result[2]
                /\ mpc' = "combined"
       ELSE /\ UNCHANGED <<equity_df, combined_trades>>
            /\ mpc' = "done"
    /\ UNCHANGED <<ledgers, si, all_trades, trades_df, metrics, sort_kind>>
    /\ UNCHANGED evars

(* combined_metrics = framework.calculate_performance_metrics(combined_trades) *)
CombinedMetrics ==
    /\ mpc = "combined"
    /\ metrics' = calculate_performance_metrics(combined_trades)
    /\ trades_df' = CallerFrameAfter(combined_trades)
    /\ combined_trades' = trades_df'
    /\ mpc' = "done"
    /\ UNCHANGED <<ledgers, si, all_trades, equity_df, sort_kind>>
    /\ UNCHANGED evars

(* a further call of calculate_performance_metrics by the holder of a ledger:
   on the ledger of the last report, or on the ledger of a strategy *)
Recalculate ==
    /\ mpc \in {"done", "again"}
    /\ \E df \in {trades_df} \cup Rows(ledgers) :
        /\ metrics' = calculate_performance_metrics(df)
        /\ trades_df' = CallerFrameAfter(df)
    /\ mpc' = "again"
    /\ UNCHANGED <<ledgers, si, all_trades, combined_trades, equity_df, sort_kind>>
    /\ UNCHANGED evars

MainNext ==
    \/ StrategyMetrics
    \/ CombinePortfolio
    \/ CombinedMetrics
    \/ Recalculate

MetricsSpec == MainInit /\ [][MainNext]_vars

----------------------------------------------------------------------------
(* Sanity of the arithmetic: the investment is exactly a tenth of the capital
   and every profit is an exact quotient, so \div rounds nothing *)
ArithmeticExact ==
    \A k \in {j \in 1..Len(live_positions) : j \notin Rows(positions_to_close)} :
        LET pos == live_positions[k]
            x == get_exit_price_at_close(date, pos.expiry, pos.strike, pos.option_type)
        IN  /\ pos.investment * InvestDivisor = capital
            /\ x # None => (pos.investment * (x[1] - pos.entry_price)) % pos.entry_price = 0
            /\ x # None => ((x[1] - pos.entry_price) * 100) % pos.entry_price = 0

----------------------------------------------------------------------------
(* Properties of backtest_strategy *)

(* C1: the live-position set holds at most one position in every reachable
   state: once a position is live the entry pass stops without opening
   another. *)
C1_SinglePosition == Len(live_positions) <= 1

(* a position is live while the entry pass still has a sampled observation
   of the same date before it: the request of that observation is ignored *)
C1_Witness ==
    /\ pc = "entry"
    /\ Len(live_positions) = 1
    /\ idx < Len(date_filtered)
    /\ live_positions[1].entry_date = date

(* C2: every closed trade of the ledger has exit_date = entry_date. *)
C2_SameDayClosure ==
    \A k \in 1..Len(trades) : trades[k].exit_date = trades[k].entry_date

(* a ledger with a trade of each of two dates *)
C2_Witness ==
    /\ Len(trades) >= 2
    /\ trades[1].entry_date # trades[2].entry_date

(* C3: in ledger order, capital_after of a trade is capital_after of its
   predecessor (initial_capital for the first trade) plus the trade's profit. *)
C3_CapitalConservation ==
    \A k \in 1..Len(trades) :
        trades[k].capital_after =
            (IF k = 1 THEN initial_capital ELSE trades[k - 1].capital_after)
            + trades[k].profit

(* a winning trade followed by a losing one *)
C3_Witness ==
    /\ Len(trades) >= 2
    /\ trades[1].profit > 0
    /\ trades[2].profit < 0

(* C4: the per-date counter trades_today[d] (opens plus closes of d) never
   exceeds the cap of 3, and no position is opened on a date whose counter
   has reached 3. *)
C4_PerDateCap ==
    /\ [](\A d \in DOMAIN trades_today : trades_today[d] <= MaxTradesToday)
    /\ [][Len(live_positions') > Len(live_positions)
            => trades_today[date] < MaxTradesToday]_vars

(* a date on which a position was opened and closed: the counter counts both *)
C4_Witness ==
    /\ pc = "for_date"
    /\ \E d \in DOMAIN trades_today :
        /\ trades_today[d] = 2
        /\ \E k \in 1..Len(trades) : trades[k].entry_date = d

(* the dates the table holds *)
TableDates == {nifty_data[k].Date : k \in 1..Len(nifty_data)}

(* how one step may move through a date: horizon pass, entry pass, same-day
   pass, next date; a date is begun only if it was never begun before and
   lies after every date begun so far *)
C5_PhaseStep ==
    \/ /\ pc = "for_date" /\ pc' = "close_horizon" /\ di' = di
       /\ date \notin DOMAIN trades_today
       /\ \A d \in DOMAIN trades_today : d < date
       /\ DOMAIN trades_today' = DOMAIN trades_today \cup {date}
    \/ /\ pc = "close_horizon" /\ pc' \in {"close_horizon", "entry"} /\ di' = di
       /\ pc' = "entry" => i > Len(live_positions)
    \/ /\ pc = "entry" /\ pc' \in {"entry", "close_sameday"} /\ di' = di
    \/ /\ pc = "close_sameday" /\ pc' = "close_sameday" /\ di' = di
    \/ /\ pc = "close_sameday" /\ pc' = "for_date" /\ di' = di + 1
       /\ i > Len(live_positions)
    \/ /\ pc = "for_date" /\ pc' = "done" /\ di' = di
       /\ DOMAIN trades_today = TableDates

(* C5: every distinct date is processed exactly once, in ascending order,
   and the run then terminates; within a date the horizon close pass is
   over before the entry pass starts, and the entry pass before the same-day
   close pass. *)
C5_DateOrder ==
    /\ [][C5_PhaseStep]_vars
    /\ [](DOMAIN trades_today \subseteq TableDates)
    /\ <>(pc = "done")

(* the run has returned after processing two dates with a trade on each *)
C5_Witness ==
    /\ pc = "done"
    /\ Cardinality(DOMAIN trades_today) >= 2
    /\ Len(trades) >= 2

(* The case of C6 is a live position whose contract has no row on the date
   being processed.  No reachable state holds one: a position is
   opened only on a row of its contract on its entry date, and the same-day
   pass closes it on that row set, so the horizon pass never meets a position. *)
C6_CaseNeverArises ==
    /\ pc = "close_horizon" => live_positions = <<>>
    /\ \A k \in 1..Len(live_positions) :
          LET pos == live_positions[k]
          IN  /\ pos.entry_date = date
              /\ get_exit_price_at_close(date, pos.expiry, pos.strike,
                                         pos.option_type) # None

TradeFields ==
    {"strategy", "entry_date", "exit_date", "entry_time", "exit_time", "option_type",
     "strike", "expiry", "entry_price", "exit_price", "profit", "profit_pct",
     "capital_after", "underlying_at_entry"}

(* C7: every step leaves the ledger unchanged or appends exactly one
   complete closed trade whose capital_after is the running capital at that
   moment; no earlier entry is modified or removed. *)
C7_AppendOnly ==
    [][\/ trades' = trades
       \/ /\ Len(trades') = Len(trades) + 1
          /\ SubSeq(trades', 1, Len(trades)) = trades
          /\ DOMAIN trades'[Len(trades')] = TradeFields
          /\ trades'[Len(trades')].capital_after = capital']_vars

(* a second trade has just been appended, and it moved the capital *)
C7_Witness ==
    /\ pc = "close_sameday"
    /\ Len(trades) = 2
    /\ trades[2].profit # 0
    /\ trades[2].capital_after = capital
    /\ positions_to_close # <<>>

(* the rows of the table that quote a contract on a date, by position *)
C8_QuoteIndexes(on_date, expiry, strike, option_type) ==
    {k \in 1..Len(nifty_data) :
        /\ nifty_data[k].Date = on_date
        /\ nifty_data[k].Expiry = expiry
        /\ nifty_data[k].Strike = strike
        /\ nifty_data[k].OptionType = option_type}

(* what C8 asks of a sampled observation and of the answer of entry_logic *)
C8_Conditions(row, sig) ==
    /\ row.UNDERLYING # None
    /\ row.UNDERLYING[1] > 0
    /\ get_nearest_expiry(date) # None
    /\ sig[2] = TRUE
    /\ sig[1] \in {"CE", "PE"}
    /\ LET ks == C8_QuoteIndexes(date, get_nearest_expiry(date)[1],
                                 get_atm_strike(row.UNDERLYING)[1], sig[1])
       IN  /\ ks # {}
           /\ nifty_data[CHOOSE k \in ks : \A j \in ks : k <= j].Close > 0

(* C8: a position is opened at a sampled observation only if the underlying
   price is present and > 0, an expiry is resolved, entry_logic returned
   should_entry true with an option type, and a price > 0 exists for the
   contract; otherwise live set, capital, counter and ledger are unchanged.
   Every closed trade has entry_price > 0 and underlying_at_entry > 0. *)
C8_EntryConditions ==
    /\ [][Len(live_positions') > Len(live_positions)
            => /\ pc = "entry"
               /\ pc' = "entry"
               /\ C8_Conditions(intraday_row, signal')]_vars
    /\ [][(pc = "entry" /\ pc' = "entry" /\ Len(live_positions') <= Len(live_positions))
            => UNCHANGED <<live_positions, capital, trades_today, trades>>]_vars
    /\ [](\A k \in 1..Len(trades) :
            trades[k].entry_price > 0 /\ trades[k].underlying_at_entry > 0)

(* a position was opened at the first row of the date on a PE signal *)
C8_Witness ==
    /\ pc = "entry"
    /\ idx = Stride
    /\ Len(live_positions) = 1
    /\ signal = <<"PE", TRUE>>
    /\ live_positions[1].entry_price > 0

(* C9: the window passed to entry_logic holds exactly the rows of the
   current date whose DateTime is at or before that of the observation. *)
C9_WindowNoLookahead ==
    [][(pc = "entry" /\ pc' = "entry" /\ ~SkipObservation(intraday_row))
         => /\ \A k \in 1..Len(current_data') :
                 /\ current_data'[k] \in Rows(nifty_data)
                 /\ current_data'[k].Date = date
                 /\ current_data'[k].DateTime <= intraday_row.DateTime
            /\ Len(current_data') =
                 Cardinality({k \in 1..Len(nifty_data) :
                                 /\ nifty_data[k].Date = date
                                 /\ nifty_data[k].DateTime <= intraday_row.DateTime})]_vars

(* entry_logic was called with a window that leaves later rows of the date out *)
C9_Witness ==
    /\ pc = "entry"
    /\ current_data # <<>>
    /\ current_data[1].Date = date
    /\ Len(current_data) < Len(date_filtered)

(* minutes since midnight of a Time *)
C10_Minutes(t) == t[1] * 60 + t[2]

(* C10: no position is opened at an observation before 09:30, and only at
   row offsets 0, 5, 10, ... of the date; every closed trade has entry_time
   at or after 09:30. *)
C10_WarmupAndStride ==
    /\ [][Len(live_positions') > Len(live_positions)
            => /\ idx % Stride = 0
               /\ idx < Len(date_filtered)
               /\ C10_Minutes(date_filtered[idx + 1].Time)
                    >= WarmupHour * 60 + WarmupMinute
               /\ live_positions'[Len(live_positions')].entry_time
                    = date_filtered[idx + 1].Time]_vars
    /\ [](\A k \in 1..Len(trades) :
            C10_Minutes(trades[k].entry_time) >= WarmupHour * 60 + WarmupMinute)

(* row 0 of the date lies before 09:30 and a position was opened at row 5,
   stamped 09:30 *)
C10_Witness ==
    /\ pc = "entry"
    /\ idx = 2 * Stride
    /\ date_filtered[1].Time = T0915
    /\ Len(live_positions) = 1
    /\ live_positions[1].entry_time = T0930

(* the running capital before the k-th trade of the ledger was closed *)
C11_CapitalBefore(k) == IF k = 1 THEN initial_capital ELSE trades[k - 1].capital_after

(* C11: the notional of a position is 10% of the running capital at the
   moment it is opened; the trade that closes it has profit = notional *
   (exit_price - entry_price) / entry_price and profit_pct = 100 *
   (exit_price - entry_price) / entry_price; entry 100, exit 110 on a capital
   of 1000000 gives profit 10000, profit_pct 10 and capital_after 1010000. *)
C11_ProfitFormula ==
    /\ [][Len(live_positions') > Len(live_positions)
            => live_positions'[Len(live_positions')].investment * InvestDivisor
                 = capital]_vars
    /\ [][Len(trades') > Len(trades)
            => LET t == trades'[Len(trades')]
                   pos == live_positions[i]
               IN  /\ t.entry_price = pos.entry_price
                   /\ t.profit * t.entry_price
                        = pos.investment * (t.exit_price - t.entry_price)
                   /\ t.profit_pct * t.entry_price
                        = 100 * (t.exit_price - t.entry_price)]_vars
    /\ [](\A k \in 1..Len(trades) :
            (/\ trades[k].entry_price = 100
             /\ trades[k].exit_price = 110
             /\ C11_CapitalBefore(k) = 1000000)
            => /\ trades[k].profit = 10000
               /\ trades[k].profit_pct = 10
               /\ trades[k].capital_after = 1010000)

(* the ledger holds the trade 100 -> 110 on the initial capital, and a later
   trade sized on the capital that trade left *)
C11_Witness ==
    /\ Len(trades) >= 2
    /\ trades[1].entry_price = 100
    /\ trades[1].exit_price = 110
    /\ trades[1].profit = 10000
    /\ trades[1].capital_after = 1010000
    /\ trades[2].profit = 10100

(* C17: a run on an empty market data table surfaces a configuration error
   to the caller instead of returning a ledger.  The code has no such error:
   __init__ stores the table unchecked and backtest_strategy returns the
   (empty) ledger, so this fails. *)
C17_EmptyTableRejected == nifty_data = <<>> => pc # "done"

----------------------------------------------------------------------------
(* Properties of calculate_performance_metrics and combine_portfolio *)

(* a report has been made; it is the report of the ledger trades_df *)
HasReport == si > 1

RECURSIVE C12_SumOver(_, _)
(* the sum of the profits of the rows of df at the positions of S *)
C12_SumOver(df, S) ==
    IF S = {} THEN 0
    ELSE LET k == CHOOSE j \in S : TRUE
         IN  df[k].profit + C12_SumOver(df, S \ {k})

C12_GrossProfit(df) == C12_SumOver(df, {k \in 1..Len(df) : df[k].profit > 0})
C12_LossSum(df) == C12_SumOver(df, {k \in 1..Len(df) : df[k].profit <= 0})
C12_HasLoser(df) == \E k \in 1..Len(df) : df[k].profit <= 0

(* C12 as claimed: Profit_Factor is gross profit / |loss sum| when the loss
   sum is not zero and 0 whenever it is zero, a ledger without a losing
   trade included. *)
C12_ZeroWithoutLosses ==
    (HasReport /\ Len(trades_df) > 0)
    => metrics.Profit_Factor =
         (IF C12_LossSum(trades_df) # 0
          THEN Frac(C12_GrossProfit(trades_df), Abs(C12_LossSum(trades_df)))
          ELSE Zero)

(* C12, amended: Profit_Factor is gross profit / |loss sum| when the loss
   sum is not zero; it is 0 when the ledger has a losing trade and the loss
   sum is zero; when the ledger has no losing trade the denominator is 1 and
   Profit_Factor is the gross profit itself. *)
C12_ProfitFactor ==
    (HasReport /\ Len(trades_df) > 0)
    => metrics.Profit_Factor =
         (IF C12_LossSum(trades_df) # 0
          THEN Frac(C12_GrossProfit(trades_df), Abs(C12_LossSum(trades_df)))
          ELSE IF C12_HasLoser(trades_df) THEN Zero
          ELSE <<C12_GrossProfit(trades_df), 1>>)

(* the report of a ledger of one winning trade: its profit factor is the
   profit of the trade *)
C12_Witness ==
    /\ HasReport
    /\ Len(trades_df) = 1
    /\ trades_df[1].profit = 100000
    /\ metrics.Winning_Trades = 1
    /\ metrics.Profit_Factor = <<100000, 1>>

(* the capital column of the Equity_Curve of the report never decreases *)
C13_NonDecreasing ==
    \A k \in 2..Len(metrics.Equity_Curve) :
        metrics.Equity_Curve[k - 1].capital <= metrics.Equity_Curve[k].capital

(* C13: for a non-empty ledger Maximum_Drawdown lies in [-100, 0] (percent),
   and it is 0 when the capitals of the equity curve never decrease. *)
C13_DrawdownBounded ==
    (HasReport /\ Len(trades_df) > 0)
    => LET mdd == metrics.Maximum_Drawdown
       IN  /\ mdd[2] > 0
           /\ -100 * mdd[2] <= mdd[1]
           /\ mdd[1] <= 0
           /\ C13_NonDecreasing => mdd = Zero

(* the report of a ledger whose curve rises and later falls *)
C13_Witness ==
    /\ HasReport
    /\ Len(trades_df) >= 3
    /\ metrics.Equity_Curve[1].capital < metrics.Equity_Curve[2].capital
    /\ metrics.Maximum_Drawdown[1] < 0

(* C14: on an empty ledger calculate_performance_metrics returns the
   zero-valued report: Total_Trades = 0, Final_Capital = initial_capital,
   Sharpe_Ratio = 0 and every other numeric field 0. *)
C14_EmptyLedgerReport ==
    (HasReport /\ Len(trades_df) = 0)
    => /\ metrics.Total_Trades = 0
       /\ metrics.Final_Capital = initial_capital
       /\ metrics.Sharpe_Ratio = Zero
       /\ metrics.CAGR = Zero
       /\ metrics.Maximum_Drawdown = Zero
       /\ metrics.Win_Rate = Zero
       /\ metrics.Winning_Trades = 0
       /\ metrics.Losing_Trades = 0
       /\ metrics.Avg_Profit_Per_Trade = Zero
       /\ metrics.Avg_Loss_Per_Trade = Zero
       /\ metrics.Total_Return = Zero
       /\ metrics.Profit_Factor = Zero
       /\ metrics.Max_Consecutive_Wins = 0
       /\ metrics.Max_Consecutive_Losses = 0
       /\ Len(metrics.Equity_Curve) = 0

(* calculate_performance_metrics was called on the empty ledger of a
   strategy after the portfolio of the other strategies had been reported *)
C14_Witness ==
    /\ mpc = "again"
    /\ Len(trades_df) = 0
    /\ Len(combined_trades) > 0
    /\ metrics.Total_Trades = 0
    /\ metrics.Final_Capital = 1000000

(* C15: every trade is winning (profit > 0) or losing (profit <= 0, a zero
   profit included) and never both: Winning_Trades + Losing_Trades =
   Total_Trades and Win_Rate = 100 * Winning_Trades / Total_Trades. *)
C15_WinLossPartition ==
    (HasReport /\ Len(trades_df) > 0)
    => /\ metrics.Total_Trades = Len(trades_df)
       /\ metrics.Winning_Trades =
            Cardinality({k \in 1..Len(trades_df) : trades_df[k].profit > 0})
       /\ metrics.Losing_Trades =
            Cardinality({k \in 1..Len(trades_df) : trades_df[k].profit <= 0})
       /\ metrics.Winning_Trades + metrics.Losing_Trades = metrics.Total_Trades
       /\ metrics.Win_Rate[2] > 0
       /\ metrics.Win_Rate[1] * metrics.Total_Trades
            = 100 * metrics.Winning_Trades * metrics.Win_Rate[2]

(* the report of a ledger of one winning trade and one trade of zero
   profit, which counts as the losing one *)
C15_Witness ==
    /\ HasReport
    /\ Len(trades_df) = 2
    /\ \E k \in 1..2 : trades_df[k].profit = 0
    /\ \E k \in 1..2 : trades_df[k].profit > 0
    /\ metrics.Losing_Trades = 1
    /\ metrics.Win_Rate = <<50, 1>>

(* rows a..b of df are all winning (win = TRUE) or all losing (win = FALSE) *)
C16_IsRun(df, a, b, win) ==
    \A k \in a..b : IF win THEN df[k].profit > 0 ELSE df[k].profit <= 0

(* the length of the longest run of consecutive winning (or losing) rows of
   df, in the order of df *)
C16_LongestRun(df, win) ==
    CHOOSE n \in 0..Len(df) :
        /\ \E a \in 1..(Len(df) - n + 1) : C16_IsRun(df, a, a + n - 1, win)
        /\ \A m \in (n + 1)..Len(df) :
              \A a \in 1..(Len(df) - m + 1) : ~C16_IsRun(df, a, a + m - 1, win)

(* C16: Max_Consecutive_Wins is the length of the longest run of
   consecutive trades with profit > 0, scanned in ledger order, and
   Max_Consecutive_Losses that of the longest run with profit <= 0.  The
   function scans the ledger as sort_values('entry_date') leaves it, and that
   sort is not stable, so this fails on a ledger with trades of equal
   entry_date. *)
C16_LedgerOrderStreaks ==
    (HasReport /\ Len(trades_df) > 0)
    => /\ metrics.Max_Consecutive_Wins = C16_LongestRun(trades_df, TRUE)
       /\ metrics.Max_Consecutive_Losses = C16_LongestRun(trades_df, FALSE)

(* with a sort that keeps rows of equal entry_date in order, the streaks are
   those of the ledger order *)
C16_StableSortStreaks == sort_kind = "stable" => C16_LedgerOrderStreaks

(* curve has one point per exit date of ledger, with the last capital_after
   the ledger records on that date, and its dates strictly increase *)
C18_PerDateCurve(curve, ledger) ==
    /\ \A k \in 2..Len(curve) : curve[k - 1].date < curve[k].date
    /\ {curve[k].date : k \in 1..Len(curve)}
         = {ledger[k].exit_date : k \in 1..Len(ledger)}
    /\ \A k \in 1..Len(curve) :
          LET on_date == {j \in 1..Len(ledger) : ledger[j].exit_date = curve[k].date}
              last == CHOOSE j \in on_date : \A m \in on_date : m <= j
          IN  curve[k].capital = ledger[last].capital_after

(* the curve combine_portfolio returns is the per-date curve of the
   combined ledger it returns *)
C18_PortfolioCurve ==
    mpc \in {"combined", "done", "again"} => C18_PerDateCurve(equity_df, combined_trades)

(* C18: the equity curve has one point per exit date, carrying the last
   capital_after of that date in ledger order, and strictly increasing dates,
   both as combine_portfolio returns it and as the Equity_Curve of
   calculate_performance_metrics.  The Equity_Curve has one point per trade,
   so this fails on a ledger with two trades on one date. *)
C18_EquityCurvePerDate ==
    /\ C18_PortfolioCurve
    /\ (HasReport /\ Len(trades_df) > 0)
         => C18_PerDateCurve(metrics.Equity_Curve, trades_df)

(* C19: calculate_performance_metrics leaves the ledger passed to it as it
   was (no row reordered, no column added), and a further call on the same
   unchanged ledger returns the same report. *)
C19_PureMetrics ==
    [][/\ (mpc = "strategies" /\ si' = si + 1) => trades_df' = ledgers[si]
       /\ (mpc = "combined" /\ mpc' = "done")
            => /\ trades_df' = combined_trades
               /\ combined_trades' = combined_trades
       /\ (mpc \in {"done", "again"} /\ mpc' = "again")
            => /\ trades_df' \in {trades_df} \cup Rows(ledgers)
               /\ trades_df' = trades_df => metrics' = metrics]_vars

(* the combined ledger, which has two trades of one entry_date for the sort
   to reorder, was reported a second time *)
C19_Witness ==
    /\ mpc = "again"
    /\ sort_kind = "reversing"
    /\ trades_df = combined_trades
    /\ Len(trades_df) >= 3
    /\ trades_df[1].entry_date = trades_df[2].entry_date
    /\ trades_df[1].profit # trades_df[2].profit
    /\ metrics.Total_Trades = Len(trades_df)

----------------------------------------------------------------------------
(* Properties of get_exit_price_at_close *)

(* the positions in the table of the rows of a contract on a date *)
C20_Quotes(on_date, expiry, strike, option_type) ==
    {k \in 1..Len(nifty_data) :
        /\ nifty_data[k].Date = on_date
        /\ nifty_data[k].Expiry = expiry
        /\ nifty_data[k].Strike = strike
        /\ nifty_data[k].OptionType = option_type}

(* price is what C20 says of the contract on the date *)
C20_IsExitPrice(price, on_date, expiry, strike, option_type) ==
    LET quotes == C20_Quotes(on_date, expiry, strike, option_type)
        by_close == {k \in quotes :
                        nifty_data[k].DateTime <= on_date * 86400 + 15 * 3600}
    IN  IF quotes = {} THEN price = None
        ELSE IF by_close # {}
        THEN \E k \in by_close :
                /\ \A m \in by_close : nifty_data[m].DateTime <= nifty_data[k].DateTime
                /\ price = Some(nifty_data[k].Close)
        ELSE \E k \in quotes :
                /\ \A m \in quotes : m <= k
                /\ price = Some(nifty_data[k].Close)

(* C20: for a contract with a row on the date get_exit_price_at_close
   returns the close of the latest row at or before 15:00:00 of the date, or
   the close of the last row of the day if no row is that early; it returns
   no price only for a contract without a row on the date.  The exit price of
   every trade the close passes record is that price.  The function reads
   the table only and the run never writes the table, so its value for every
   contract and date is examined at the head of each iteration of the date
   loop. *)
C20_ExitPrice ==
    /\ [][nifty_data' = nifty_data]_vars
    /\ [](pc = "for_date"
          => \A on_date \in 1..NumDates, expiry \in {NearExpiry, FarExpiry},
                strike \in {100, 150}, option_type \in {"CE", "PE"} :
                C20_IsExitPrice(get_exit_price_at_close(on_date, expiry, strike, option_type),
                                on_date, expiry, strike, option_type))
    /\ [][Len(trades') > Len(trades)
            => LET t == trades'[Len(trades')]
               IN  C20_IsExitPrice(Some(t.exit_price), t.exit_date, t.expiry,
                                   t.strike, t.option_type)]_vars

(* a trade was closed on a date whose rows are all later than 15:00:00, at
   the close of the last row of its contract *)
C20_Witness ==
    /\ Len(trades) >= 1
    /\ trades[1].entry_time = T1510
    /\ trades[1].exit_price = 110
    /\ \A k \in 1..Len(nifty_data) :
          nifty_data[k].Date = trades[1].exit_date
          => nifty_data[k].DateTime > trades[1].exit_date * 86400 + 15 * 3600

----------------------------------------------------------------------------
(* Properties of the contract selection *)

(* the expiries of the rows of a date *)
C21_Expiries(on_date) ==
    {nifty_data[k].Expiry : k \in {j \in 1..Len(nifty_data) : nifty_data[j].Date = on_date}}

(* e is an expiry of the date with the least days-to-expiry *)
C21_IsNearest(e, on_date) ==
    /\ e \in C21_Expiries(on_date)
    /\ \A f \in C21_Expiries(on_date) : e - on_date <= f - on_date

(* C21: get_nearest_expiry returns no expiry for a date without rows and
   otherwise an expiry of the date with the minimum days-to-expiry; every
   position opened on a date, and every closed trade, carries such an
   expiry.  The table is never written, so the function is examined at the
   head of each iteration of the date loop, for the dates of the table and
   for a date before and a date after them. *)
C21_NearestExpiry ==
    /\ [](pc = "for_date"
          => \A d \in 0..(NumDates + 1) :
                LET e == get_nearest_expiry(d)
                IN  IF C21_Expiries(d) = {} THEN e = None
                    ELSE e # None /\ C21_IsNearest(e[1], d))
    /\ [][Len(live_positions') > Len(live_positions)
            => C21_IsNearest(live_positions'[Len(live_positions')].expiry, date)]_vars
    /\ [](\A k \in 1..Len(trades) :
            C21_IsNearest(trades[k].expiry, trades[k].entry_date))

(* a position carries the nearer of the two expiries of its date, which is
   not the expiry of the first row of the date *)
C21_Witness ==
    /\ pc = "entry"
    /\ Len(live_positions) = 1
    /\ live_positions[1].expiry = NearExpiry
    /\ date_filtered[1].Expiry = FarExpiry
    /\ C21_Expiries(date) = {NearExpiry, FarExpiry}

(* strike is what C22 says of the underlying price u *)
C22_IsAtm(strike, u) ==
    IF u = None THEN strike = None
    ELSE IF u[1] <= 0 THEN strike = None
    ELSE /\ strike # None
         /\ strike[1] % 50 = 0
         /\ Abs(strike[1] - u[1]) <= 25

(* C22: for an underlying price u > 0 get_atm_strike(u) is a multiple of 50
   at most 25 away from u, for a missing or non-positive price it is no
   strike; the strike of every position and of every closed trade is
   get_atm_strike of its underlying_at_entry.  The function is examined on
   the underlying price of every row of the table, which the run never
   writes, at the head of each iteration of the date loop. *)
C22_AtmStrike ==
    /\ [](pc = "for_date"
          => \A k \in 1..Len(nifty_data) :
                C22_IsAtm(get_atm_strike(nifty_data[k].UNDERLYING),
                          nifty_data[k].UNDERLYING))
    /\ [][Len(live_positions') > Len(live_positions)
            => LET pos == live_positions'[Len(live_positions')]
               IN  /\ Some(pos.underlying_at_entry) = intraday_row.UNDERLYING
                   /\ C22_IsAtm(Some(pos.strike), intraday_row.UNDERLYING)]_vars
    /\ [](\A k \in 1..Len(trades) :
            /\ Some(trades[k].strike) = get_atm_strike(Some(trades[k].underlying_at_entry))
            /\ C22_IsAtm(Some(trades[k].strike), Some(trades[k].underlying_at_entry)))

(* a trade at strike 200 on an underlying of 175, which is as far from 150
   as from 200 *)
C22_Witness ==
    /\ Len(trades) >= 1
    /\ trades[1].underlying_at_entry = 175
    /\ trades[1].strike = 200
    /\ \E k \in 1..Len(nifty_data) : nifty_data[k].Strike = 150

----------------------------------------------------------------------------
(* Properties of the passes of a date *)

(* C23: the ledger holds at most one trade per entry_date: a position is
   opened only on a date that has no position and no trade yet (its counter
   is 0, below the cap of 3), the entry pass opens nothing more and goes
   to the same-day close pass once a position is live, and the same-day
   close pass is never followed by the entry pass of the same date. *)
C23_OneEntryPerDate ==
    /\ [](\A j, k \in 1..Len(trades) :
            j # k => trades[j].entry_date # trades[k].entry_date)
    /\ [][Len(live_positions') > Len(live_positions)
            => /\ live_positions = <<>>
               /\ trades_today[date] = 0
               /\ \A k \in 1..Len(trades) : trades[k].entry_date # date]_vars
    /\ [][(pc = "entry" /\ Len(live_positions) > 0)
            => /\ pc' = "close_sameday"
               /\ live_positions' = live_positions]_vars
    /\ [][pc = "close_sameday" => pc' \in {"close_sameday", "for_date"}]_vars

(* the first date is over with one trade, opened at its first row, and a
   counter of 2, although the row at offset 5 of the date was an observation
   after the warm-up with an underlying price *)
C23_Witness ==
    /\ pc = "for_date"
    /\ di = 2
    /\ Len(trades) = 1
    /\ trades[1].entry_date = unique_dates[1]
    /\ trades[1].entry_time = DateRows(unique_dates[1])[1].Time
    /\ trades_today[unique_dates[1]] = 2
    /\ trades_today[unique_dates[1]] < MaxTradesToday
    /\ LET later == DateRows(unique_dates[1])[Stride + 1]
       IN  /\ ~BeforeWarmup(later.Time)
           /\ later.UNDERLYING = Some(110)

(* C24: the live-position set is empty whenever a date begins, throughout
   the close-at-horizon pass and when the run returns; a live position is
   of the current date and its contract has a row on that date, so
   get_exit_price_at_close has a price for it and the same-day close pass
   leaves the live set empty; the close-at-horizon pass records no trade. *)
C24_NoOvernight ==
    /\ [](pc \in {"for_date", "close_horizon", "done"} => live_positions = <<>>)
    /\ [](\A k \in 1..Len(live_positions) :
            LET pos == live_positions[k]
            IN  /\ pos.entry_date = date
                /\ ContractRows(date, pos.expiry, pos.strike, pos.option_type) # <<>>
                /\ get_exit_price_at_close(date, pos.expiry, pos.strike,
                                           pos.option_type) # None)
    /\ [][pc = "close_horizon" => trades' = trades /\ capital' = capital]_vars
    /\ [][(pc = "close_sameday" /\ pc' = "for_date") => live_positions' = <<>>]_vars

(* the close-at-horizon pass of the second date is over and found nothing
   to close: the position of the first date was closed on the first date *)
C24_Witness ==
    /\ pc = "entry"
    /\ di = 2
    /\ idx = 0
    /\ live_positions = <<>>
    /\ positions_to_close = <<>>
    /\ Len(trades) = 1
    /\ trades[1].exit_date = unique_dates[1]

(* the initial capital is > 0 and every Close of the table is >= 0 *)
C25_Assumed ==
    /\ initial_capital > 0
    /\ \A k \in 1..Len(nifty_data) : nifty_data[k].Close >= 0

(* C25: with an initial capital > 0 and every Close of the table >= 0, the
   running capital is > 0 in every state, and a close leaves at least nine
   tenths of the capital the position was opened on: the position's
   investment is a tenth of that capital, and capital_after >= 0.9 x it. *)
C25_CapitalPositive ==
    /\ [](C25_Assumed => capital > 0)
    /\ [][(C25_Assumed /\ Len(trades') > Len(trades))
            => LET pos == live_positions[i]
                   opened_on == pos.investment * InvestDivisor
               IN  /\ opened_on = capital
                   /\ capital' = trades'[Len(trades')].capital_after
                   /\ 10 * capital' >= 9 * opened_on]_vars
    /\ [](C25_Assumed
          => \A k \in 1..Len(trades) :
                /\ trades[k].capital_after > 0
                /\ 10 * trades[k].capital_after >= 9 * C11_CapitalBefore(k))

(* two positions in a row were closed at a price of 0: each close took
   exactly a tenth of the capital *)
C25_Witness ==
    /\ Len(trades) = 2
    /\ trades[1].exit_price = 0
    /\ trades[2].exit_price = 0
    /\ trades[1].capital_after = 900000
    /\ capital = 810000

----------------------------------------------------------------------------
(* Properties of the time of the exit *)

(* the row of the table that supplies the exit price of the trade t: the
   last row of its contract at or before 15:00:00 of the exit date, or the
   last row of the contract on that date *)
C26_ExitRow(t) ==
    LET rows == ContractRows(t.exit_date, t.expiry, t.strike, t.option_type)
        by_close == SelectSeq(rows, LAMBDA r :
                        r.DateTime <= ToDateTime(t.exit_date, <<CloseHour, 0, 0>>))
    IN  IF by_close # <<>> THEN by_close[Len(by_close)] ELSE rows[Len(rows)]

(* C26: for every closed trade the row that supplies the exit price is not
   earlier than the observation at which the position was opened, and the
   stamped exit_time is at or after entry_time.  The entry pass has no such
   bound: it opens positions at observations after 15:00:00, which the
   same-day pass closes at the price of an earlier row, so this fails. *)
C26_ExitNotBeforeEntry ==
    \A k \in 1..Len(trades) :
        LET t == trades[k]
            opened_at == ToDateTime(t.entry_date, t.entry_time)
        IN  /\ opened_at <= C26_ExitRow(t).DateTime
            /\ opened_at <= ToDateTime(t.exit_date, t.exit_time)

====
